---- MODULE Spec2Model ----
(***************************************************************************)
(* Model of ig65m/cli/dreamer.py: activation maximisation ("dreaming") on  *)
(* a video clip.  main() loads one clip, runs num_epochs gradient-ascent   *)
(* iterations on it and writes the denormalised clip as a GIF.             *)
(*                                                                         *)
(* Tensors are records [shape, data]: shape is the tuple of dimension      *)
(* sizes, data the row-major (contiguous) sequence of the elements.        *)
(* Indices are 1-based here and 0-based in the source.                     *)
(*                                                                         *)
(* float32 values are modelled as fixed-point integers with Scale units    *)
(* per 1.0, every division rounding down; NaN and infinities are outside   *)
(* the model.  The network and the autograd engine are external: the       *)
(* activation norms of a forward pass and the gradient of a backward pass  *)
(* are nondeterministic choices from small sets.                           *)
(***************************************************************************)
EXTENDS Integers, Sequences, FiniteSets, TLC

VARIABLES pc, args, params, video, grad, acts, weights, channels,
          loss, tv, computed, epoch, postfix, dream

vars == <<pc, args, params, video, grad, acts, weights, channels,
          loss, tv, computed, epoch, postfix, dream>>

(***************************************************************************)
(* Bounds of the model                                                     *)
(***************************************************************************)
\* largest num_epochs explored
MaxEpochs == 2
\* largest size of each axis of the tensors given to TotalVariationLoss alone
MaxDim == 2

(***************************************************************************)
(* Fixed-point arithmetic                                                  *)
(***************************************************************************)
\* units per 1.0: the three decimals kept of the mean and std literals
Scale == 1000

\* 1e-12 is below the resolution: the smallest positive value stands for it
Eps == 1

None == "None"

\* video.grad before the first backward pass; no output yet
NoTensor == [shape |-> <<>>, data |-> <<>>]

Max(a, b) == IF a >= b THEN a ELSE b
Min(a, b) == IF a <= b THEN a ELSE b
AbsVal(a) == IF a < 0 THEN 0 - a ELSE a

\* floor of the square root
ISqrt(v) == CHOOSE r \in 0..v : r * r <= v /\ (r + 1) * (r + 1) > v

(***************************************************************************)
(* Tensors                                                                 *)
(***************************************************************************)
RECURSIVE Prod(_)
Prod(s) == IF s = <<>> THEN 1 ELSE Head(s) * Prod(Tail(s))

Numel(shape) == Prod(shape)

\* distance in data between neighbours along axis a
Stride(shape, a) == Prod(SubSeq(shape, a + 1, Len(shape)))

\* the index along axis a of the element at position k of data
Coord(shape, k, a) == (((k - 1) \div Stride(shape, a)) % shape[a]) + 1

RECURSIVE SumRange(_, _, _)
SumRange(f, lo, hi) ==
    IF lo > hi THEN 0
    ELSE IF lo = hi THEN f[lo]
    ELSE LET mid == (lo + hi) \div 2
         IN  SumRange(f, lo, mid) + SumRange(f, mid + 1, hi)

\* x.sum()
Sum(x) == SumRange(x.data, 1, Len(x.data))

\* x.abs()
Abs(x) == [x EXCEPT !.data = [k \in 1..Len(x.data) |-> AbsVal(x.data[k])]]

\* Sub with the sign of y lost
SubAsAdd(x, y) == [x EXCEPT !.data = [k \in 1..Len(x.data) |-> x.data[k] + y.data[k]]]

\* x - y, elementwise, for tensors of one shape
Sub(x, y) == [x EXCEPT !.data = [k \in 1..Len(x.data) |-> x.data[k] - y.data[k]]]

\* the slice start .. start+len-1 (1-based) of x along axis a
Narrow(x, a, start, len) ==
    LET st    == Stride(x.shape, a)
        shp   == [x.shape EXCEPT ![a] = len]
        old(k) == ((k - 1) \div (len * st)) * (x.shape[a] * st)
                  + ((k - 1) % (len * st)) + (start - 1) * st + 1
    IN  [shape |-> shp, data |-> [k \in 1..Numel(shp) |-> x.data[old(k)]]]

\* inputs[..., :-1, ...] along axis a
ButLast(x, a) == Narrow(x, a, 1, x.shape[a] - 1)

\* inputs[..., 1:, ...] along axis a
ButFirst(x, a) == Narrow(x, a, 2, x.shape[a] - 1)

(***************************************************************************)
(* TotalVariationLoss.forward                                              *)
(***************************************************************************)
\* (inputs[.. :-1 ..] - inputs[.. 1: ..]).abs().sum() along axis a
Delta(inputs, a) == Sum(Abs(Sub(ButLast(inputs, a), ButFirst(inputs, a))))

\* TVAxes with every slice one axis early: C, T, H
TVAxesShifted == <<2, 3, 4>>

\* the axes the loss offsets by one element: T, H, W of (N, C, T, H, W)
TVAxes == <<3, 4, 5>>

TotalVariationLoss(inputs) ==
    0 + Delta(inputs, TVAxes[1]) + Delta(inputs, TVAxes[2]) + Delta(inputs, TVAxes[3])

(***************************************************************************)
(* Per-channel statistics and the transforms built on them                 *)
(***************************************************************************)
\* [0.43216, 0.394666, 0.37645] and [0.22803, 0.22145, 0.216989]
mean == <<432, 395, 376>>
std  == <<228, 221, 217>>

\* Normalize(mean, std) on a (c, t, h, w) clip: (x - mean[c]) / std[c]
Normalize(x) ==
    LET st == Stride(x.shape, 1)
    IN  [x EXCEPT !.data = [k \in 1..Len(x.data) |->
            LET c == ((k - 1) \div st) + 1
            IN  ((x.data[k] - mean[c]) * Scale) \div std[c]]]

\* Denormalize(mean, std) on a (c, t, h, w) clip: x * std[c] + mean[c]
Denormalize(x) ==
    LET st == Stride(x.shape, 1)
    IN  [x EXCEPT !.data = [k \in 1..Len(x.data) |->
            LET c == ((k - 1) \div st) + 1
            IN  (x.data[k] * std[c]) \div Scale + mean[c]]]

\* rearrange(video, "c t h w -> () c t h w")
AddBatch(x) == [shape |-> <<1>> \o x.shape, data |-> x.data]

\* rearrange(video, "() c t h w -> c t h w")
DropBatch(x) == [shape |-> Tail(x.shape), data |-> x.data]

\* rearrange(video, "c t h w -> t h w c")
ChannelsLast(x) ==
    LET c   == x.shape[1]
        thw == Numel(Tail(x.shape))
    IN  [shape |-> Tail(x.shape) \o <<c>>,
         data  |-> [k \in 1..Len(x.data) |->
                      x.data[((k - 1) % c) * thw + ((k - 1) \div c) + 1]]]

\* x.clamp_(lo, hi)
Clamp(x, lo, hi) ==
    [x EXCEPT !.data = [k \in 1..Len(x.data) |-> Min(Max(x.data[k], lo), hi)]]

(***************************************************************************)
(* main: the pieces of the optimisation loop                               *)
(***************************************************************************)
\* ShapeOK looking at the channels only
ChannelsOK(x) == x.shape[1] = 3

\* assert video.size()[0:2] == (3, 32)
ShapeOK(x) == SubSeq(x.shape, 1, 2) = <<3, 32>>

\* MoreEpochs running one epoch too many
OneMoreEpoch(e, n) == e <= n

\* range(args.num_epochs) has another epoch to give after e of them
MoreEpochs(e, n) == e < n

\* Weights with every layer enabled
AllLayers == <<1, 1, 1, 1, 1>>

\* weights = [0, 0, 1, 0, 0]
Weights == <<0, 0, 1, 0, 0>>

\* channels = [0, 0, 6, 0, 0]
Channels == <<0, 0, 6, 0, 0>>

\* for act, w, c in zip(acts, weights, channels): loss += w * act.norm()
RECURSIVE WeightedNorms(_, _, _)
WeightedNorms(a, w, i) ==
    IF i > Min(Len(a), Len(w)) THEN 0
    ELSE w[i] * a[i] + WeightedNorms(a, w, i + 1)

\* tv = -1 * variation(video) * args.gamma
Regularizer(x, gamma) == (-1 * TotalVariationLoss(x) * gamma) \div Scale

\* loss.backward() adds the gradient to video.grad
Accumulate(old, g) ==
    IF old = NoTensor THEN g
    ELSE [old EXCEPT !.data = [k \in 1..Len(old.data) |-> old.data[k] + g.data[k]]]

\* grad.std(): the unbiased standard deviation of all elements
StdDev(g) ==
    LET n  == Len(g.data)
        s  == SumRange(g.data, 1, n)
        sq == SumRange([k \in 1..n |-> g.data[k] * g.data[k]], 1, n)
    IN  ISqrt((n * sq - s * s) \div (n * (n - 1)))

\* grad /= grad.std() + 1e-12
NormalizeGrad(g) ==
    LET d == StdDev(g) + Eps
    IN  [g EXCEPT !.data = [k \in 1..Len(g.data) |-> (g.data[k] * Scale) \div d]]

\* AddScaled going down the gradient
Descend(x, lr, g) ==
    [x EXCEPT !.data = [k \in 1..Len(x.data) |-> x.data[k] - (lr * g.data[k]) \div Scale]]

\* AddScaled rebinding video to the updated first batch entry
AddScaledSqueezed(x, lr, g) ==
    [shape |-> Tail(x.shape),
     data  |-> [k \in 1..Len(x.data) |-> x.data[k] + (lr * g.data[k]) \div Scale]]

\* video.data += args.lr * grad
AddScaled(x, lr, g) ==
    [x EXCEPT !.data = [k \in 1..Len(x.data) |-> x.data[k] + (lr * g.data[k]) \div Scale]]

\* cmin = (0. - mean[i]) / std[i]
CMin(i) == ((0 - mean[i]) * Scale) \div std[i]

\* cmax = (1. - mean[i]) / std[i]
CMax(i) == ((Scale - mean[i]) * Scale) \div std[i]

\* ClampChannel with the upper limit forgotten
ClampBelow(x, i, cmin, cmax) ==
    LET s1 == Stride(x.shape, 1)
        s2 == Stride(x.shape, 2)
        c  == x.shape[2]
    IN  [x EXCEPT !.data = [k \in 1..Len(x.data) |->
            IF (k - 1) \div s1 = 0 /\ ((k - 1) \div s2) % c = i - 1
            THEN Max(x.data[k], cmin)
            ELSE x.data[k]]]

\* video.data[0, i].clamp_(cmin, cmax)
ClampChannel(x, i, cmin, cmax) ==
    LET s1 == Stride(x.shape, 1)
        s2 == Stride(x.shape, 2)
        c  == x.shape[2]
    IN  [x EXCEPT !.data = [k \in 1..Len(x.data) |->
            IF (k - 1) \div s1 = 0 /\ ((k - 1) \div s2) % c = i - 1
            THEN Min(Max(x.data[k], cmin), cmax)
            ELSE x.data[k]]]

\* for i in range(video.size(1)): clamp channel i
RECURSIVE ForceRange(_, _)
ForceRange(x, i) ==
    IF i > x.shape[2] THEN x
    ELSE ForceRange(ClampChannel(x, i, CMin(i), CMax(i)), i + 1)

\* Zero leaving the buffer as it is
KeepGrad(g) == g

\* video.grad.data.zero_()
Zero(g) == [g EXCEPT !.data = [k \in 1..Len(g.data) |-> 0]]

\* FinalClamp left out
NoFinalClamp(x) == x

\* video.clamp_(0, 1) on the denormalised clip
FinalClamp(x) == Clamp(x, 0, Scale)

\* (video * 255).astype(np.uint8)
ToUint8(x) ==
    [x EXCEPT !.data = [k \in 1..Len(x.data) |-> ((x.data[k] * 255) \div Scale) % 256]]

(***************************************************************************)
(* Inputs: the command line, the clip the dataset yields, and what the     *)
(* network and autograd return                                             *)
(***************************************************************************)
\* args.lr and args.gamma, in Scale units
Rates  == {100, 1500}
Gammas == {0, 10}

\* decoded frames as ToTensor leaves them, values in [0, 1]: all black, and
\* a pattern of black, grey and white that differs between neighbours
Ramp(shape, step) ==
    [shape |-> shape,
     data  |-> [k \in 1..Numel(shape) |-> ((k - 1) * step) % (Scale + 1)]]

Frames(shape) == {Ramp(shape, 0), Ramp(shape, 500)}

\* (h, w) of the resized frames
FrameSizes == {<<1, 1>>, <<1, 2>>, <<2, 2>>}

\* (c, t, h, w) of the clips: the expected 3 x 32, one with a channel and
\* one with frames missing
ClipShapes ==
    {<<3, 32>> \o hw : hw \in FrameSizes} \cup {<<1, 32, 1, 1>>, <<3, 16, 1, 1>>}

\* next(iter(dataset)): transformed frames
Clips == UNION {{Normalize(f) : f \in Frames(s)} : s \in ClipShapes}

\* act.norm() of [l0, l1, l2, l3, l4] as VideoModel.forward may return them
ActNorms == {<<0, 0, 0, 0, 0>>, <<9000, 7000, 5000, 3000, 1000>>}

\* d loss / d video as loss.backward() may compute it: zero, uniform, mixed
Gradients(shape) ==
    {[shape |-> shape, data |-> [k \in 1..Numel(shape) |-> 0]],
     [shape |-> shape, data |-> [k \in 1..Numel(shape) |-> 3]],
     [shape |-> shape, data |-> [k \in 1..Numel(shape) |-> ((k * 7) % 5) - 2]]}

(***************************************************************************)
(* main                                                                    *)
(***************************************************************************)
\* state once the model is built and frozen and the first clip is read
Init ==
    /\ pc = "initialize"
    /\ args \in [num_epochs : 0..MaxEpochs, lr : Rates, gamma : Gammas]
    /\ params = [value |-> "pretrained", requires_grad |-> FALSE]
    /\ video \in Clips
    /\ grad = NoTensor
    /\ acts = None
    /\ weights = None
    /\ channels = None
    /\ loss = None
    /\ tv = None
    /\ computed = NoTensor
    /\ epoch = 0
    /\ postfix = None
    /\ dream = NoTensor

\* check the clip's shape, add the batch axis, make it a leaf that requires grad
Initialize ==
    /\ pc = "initialize"
    /\ IF ShapeOK(video)
       THEN /\ video' = AddBatch(video)
            /\ pc' = "loop"
       ELSE /\ video' = video
            /\ pc' = "shape_assertion_failed"
    /\ UNCHANGED <<args, params, grad, acts, weights, channels,
                   loss, tv, computed, epoch, postfix, dream>>

\* for epoch in progress
LoopHead ==
    /\ pc = "loop"
    /\ IF MoreEpochs(epoch, args.num_epochs)
       THEN /\ epoch' = epoch + 1
            /\ pc' = "forward"
       ELSE /\ epoch' = epoch
            /\ pc' = "finalize"
    /\ UNCHANGED <<args, params, video, grad, acts, weights, channels,
                   loss, tv, computed, postfix, dream>>

\* acts = model(video)
Forward ==
    /\ pc = "forward"
    /\ acts' \in ActNorms
    /\ pc' = "loss"
    /\ UNCHANGED <<args, params, video, grad, weights, channels,
                   loss, tv, computed, epoch, postfix, dream>>

\* loss = sum of the weighted norms plus the regulariser term
Loss ==
    /\ pc = "loss"
    /\ weights' = Weights
    /\ channels' = Channels
    /\ tv' = Regularizer(video, args.gamma)
    /\ loss' = 0 + WeightedNorms(acts, weights', 1) + tv'
    /\ pc' = "backward"
    /\ UNCHANGED <<args, params, video, grad, acts, computed, epoch,
                   postfix, dream>>

\* loss.backward()
Backward ==
    /\ pc = "backward"
    /\ \E g \in Gradients(video.shape) :
          /\ computed' = g
          /\ grad' = Accumulate(grad, g)
    /\ pc' = "normalize"
    /\ UNCHANGED <<args, params, video, acts, weights, channels,
                   loss, tv, epoch, postfix, dream>>

\* grad = video.grad.data; grad /= grad.std() + 1e-12
NormalizeStep ==
    /\ pc = "normalize"
    /\ grad' = NormalizeGrad(grad)
    /\ pc' = "update"
    /\ UNCHANGED <<args, params, video, acts, weights, channels,
                   loss, tv, computed, epoch, postfix, dream>>

\* video.data += args.lr * grad
Update ==
    /\ pc = "update"
    /\ video' = AddScaled(video, args.lr, grad)
    /\ pc' = "clamp"
    /\ UNCHANGED <<args, params, grad, acts, weights, channels,
                   loss, tv, computed, epoch, postfix, dream>>

\* force video to [0, 1] in normalized space
ClampStep ==
    /\ pc = "clamp"
    /\ video' = ForceRange(video, 1)
    /\ pc' = "zero"
    /\ UNCHANGED <<args, params, grad, acts, weights, channels,
                   loss, tv, computed, epoch, postfix, dream>>

\* video.grad.data.zero_()
ZeroGrad ==
    /\ pc = "zero"
    /\ grad' = Zero(grad)
    /\ pc' = "report"
    /\ UNCHANGED <<args, params, video, acts, weights, channels,
                   loss, tv, computed, epoch, postfix, dream>>

\* progress.set_postfix({"loss": loss.item(), "tv": tv.item()})
Report ==
    /\ pc = "report"
    /\ postfix' = [loss |-> loss, tv |-> tv]
    /\ pc' = "loop"
    /\ UNCHANGED <<args, params, video, grad, acts, weights, channels,
                   loss, tv, computed, epoch, dream>>

\* the denormalised clip, frame-major, before the checks
Dreamed(x) == FinalClamp(ChannelsLast(Denormalize(DropBatch(x))))

\* the asserts on the numpy array
ArrayOK(x) ==
    /\ x.shape[1] = 32
    /\ x.shape[4] = 3
    /\ \A k \in 1..Len(x.data) : x.data[k] >= 0
    /\ \A k \in 1..Len(x.data) : x.data[k] <= Scale

\* denormalize, check, convert to 8-bit frames and save the GIF
Finalize ==
    /\ pc = "finalize"
    /\ video' = Dreamed(video)
    /\ IF ArrayOK(video')
       THEN /\ dream' = ToUint8(video')
            /\ pc' = "done"
       ELSE /\ dream' = dream
            /\ pc' = "array_assertion_failed"
    /\ UNCHANGED <<args, params, grad, acts, weights, channels,
                   loss, tv, computed, epoch, postfix>>

Next ==
    \/ Initialize
    \/ LoopHead
    \/ Forward
    \/ Loss
    \/ Backward
    \/ NormalizeStep
    \/ Update
    \/ ClampStep
    \/ ZeroGrad
    \/ Report
    \/ Finalize

Spec == Init /\ [][Next]_vars

(***************************************************************************)
(* TotalVariationLoss on its own: forward applied to a batch of any shape  *)
(***************************************************************************)
\* elements a, a + (k*b mod m): uniform when b = 0
Fill(shape, a, b, m) ==
    [shape |-> shape, data |-> [k \in 1..Numel(shape) |-> a + ((k * b) % m)]]

\* batches (N, C, T, H, W) with every axis of size 1..MaxDim
Batches ==
    UNION {{Fill(shape, 0, 0, 1), Fill(shape, -450, 0, 1), Fill(shape, 2491, 0, 1),
            Fill(shape, -8, 31, 17), Fill(shape, 0, 1, 2)} :
           shape \in [1..5 -> 1..MaxDim]}

InitTV ==
    /\ pc = "variation"
    /\ args = [num_epochs |-> 0, lr |-> 0, gamma |-> 0]
    /\ params = [value |-> "pretrained", requires_grad |-> FALSE]
    /\ video \in Batches
    /\ grad = NoTensor
    /\ acts = None
    /\ weights = None
    /\ channels = None
    /\ loss = None
    /\ tv = None
    /\ computed = NoTensor
    /\ epoch = 0
    /\ postfix = None
    /\ dream = NoTensor

\* loss = variation(video)
Variation ==
    /\ pc = "variation"
    /\ loss' = TotalVariationLoss(video)
    /\ pc' = "returned"
    /\ UNCHANGED <<args, params, video, grad, acts, weights, channels,
                   tv, computed, epoch, postfix, dream>>

NextTV == Variation

SpecTV == InitTV /\ [][NextTV]_vars

(***************************************************************************)
(* Properties                                                              *)
(***************************************************************************)
\* sum over every element that has a successor along axis a of the
\* absolute difference between the element and that successor
PairSum(x, a) ==
    LET n  == Len(x.data)
        st == Stride(x.shape, a)
        sz == x.shape[a]
    IN  SumRange([k \in 1..n |->
                     IF (((k - 1) \div st) % sz) + 1 < sz
                     THEN AbsVal(x.data[k] - x.data[k + st])
                     ELSE 0], 1, n)

\* the total variation of a batch (N, C, T, H, W), pair by pair
PairTV(x) == PairSum(x, 3) + PairSum(x, 4) + PairSum(x, 5)

IsUniform(x) == \A k \in 1..Len(x.data) : x.data[k] = x.data[1]

\* C4: forward returns the sum of the absolute differences between each
\* element and its successor along the time, the height and the width axis;
\* the batch and the channel axis contribute nothing.
TVIsSumOfNeighbourDifferences ==
    pc = "returned" => loss = PairTV(video)

\* a full-size batch that differs along every axis, the first two included
TVWitness ==
    /\ pc = "returned"
    /\ \A a \in 1..5 : video.shape[a] = MaxDim /\ PairSum(video, a) > 0
    /\ loss > 0

\* C5: the total variation of a batch whose elements are all equal is 0,
\* whatever the value and the shape.
TVOfUniformIsZero ==
    (pc = "returned" /\ IsUniform(video)) => loss = 0

\* a uniform non-zero batch with neighbours along every axis
UniformWitness ==
    /\ pc = "returned"
    /\ IsUniform(video)
    /\ video.data[1] # 0
    /\ \A a \in 1..5 : video.shape[a] = MaxDim
    /\ loss = 0

\* the statements of the loop body
Body == {"forward", "loss", "backward", "normalize", "update", "clamp", "zero", "report"}

\* the number of iterations that have run to their end
Completed == IF pc \in Body THEN epoch - 1 ELSE epoch

\* an iteration has clamped the clip and is ending, or has ended
AfterClamp ==
    \/ pc \in {"zero", "report"}
    \/ epoch >= 1 /\ pc \in {"loop", "finalize"}

\* every element of x (1, C, T, H, W) is in the normalized range of its
\* channel, and its denormalized value is in [0, 1] up to one unit of rounding
InRange(x) ==
    LET st == Stride(x.shape, 2)
        sz == x.shape[2]
    IN
    \A k \in 1..Len(x.data) :
        LET i == (((k - 1) \div st) % sz) + 1
        IN  /\ x.data[k] >= ((0 - mean[i]) * Scale) \div std[i]
            /\ x.data[k] <= ((Scale - mean[i]) * Scale) \div std[i]
            /\ (x.data[k] * std[i]) \div Scale + mean[i] >= 0 - 1
            /\ (x.data[k] * std[i]) \div Scale + mean[i] <= Scale + 1

AllZero(x) == \A k \in 1..Len(x.data) : x.data[k] = 0

\* C1: at the end of every iteration every element of the clip lies in the
\* normalized range of its channel, so that its denormalized value is in [0, 1].
ClipClampedAfterIteration ==
    AfterClamp => InRange(video)

\* a second iteration's clamp has left elements on the upper and on the
\* lower limit of channel 1
ClampWitness ==
    /\ pc = "zero"
    /\ epoch = 2
    /\ \E k \in 1..Len(video.data) :
          Coord(video.shape, k, 2) = 1 /\ video.data[k] = ((Scale - mean[1]) * Scale) \div std[1]
    /\ \E k \in 1..Len(video.data) :
          Coord(video.shape, k, 2) = 1 /\ video.data[k] = ((0 - mean[1]) * Scale) \div std[1]

\* C2: after an iteration the gradient buffer is zero until the next backward
\* pass, so the gradient an iteration normalizes is the one its own backward
\* pass computed, with nothing of earlier iterations added.
GradientNeverAccumulated ==
    /\ (pc = "report" \/ (Completed >= 1 /\ pc \in {"loop", "forward", "loss", "backward", "finalize"}))
          => (grad # NoTensor /\ AllZero(grad))
    /\ pc = "normalize" => grad = computed

\* the second backward pass has put a non-zero gradient into the buffer
SecondGradientWitness ==
    /\ pc = "normalize"
    /\ epoch = 2
    /\ ~AllZero(computed)
    /\ grad = computed

\* C3: finalize turns the clip (1, 3, 32, H, W) into an array (32, H, W, 3)
\* of values in 0..255, and none of its assertions fails, for any number of epochs.
FinalizeYieldsFrames ==
    [][pc = "finalize" =>
          /\ pc' = "done"
          /\ dream'.shape = <<32, video.shape[4], video.shape[5], 3>>
          /\ Len(dream'.data) = 32 * video.shape[4] * video.shape[5] * 3
          /\ \A k \in 1..Len(dream'.data) : dream'.data[k] \in 0..255
          /\ \A k \in 1..Len(video'.data) : video'.data[k] \in 0..Scale]_vars

\* frames written without any iteration, holding black and (near) white pixels
FramesWitness ==
    /\ pc = "done"
    /\ args.num_epochs = 0
    /\ dream.shape = <<32, 2, 2, 3>>
    /\ \E k \in 1..Len(dream.data) : dream.data[k] = 0
    /\ \E k \in 1..Len(dream.data) : dream.data[k] >= 254

Stopped == {"done", "shape_assertion_failed", "array_assertion_failed"}

\* the statements still to run before "done" when no assertion fails
StepsLeft ==
    LET iterations == (args.num_epochs - epoch) * (Cardinality(Body) + 1)
        position == CASE pc = "forward" -> 8 [] pc = "loss" -> 7
                      [] pc = "backward" -> 6 [] pc = "normalize" -> 5
                      [] pc = "update" -> 4 [] pc = "clamp" -> 3
                      [] pc = "zero" -> 2 [] pc = "report" -> 1
    IN  CASE pc = "initialize" -> 1 + iterations + 2
          [] pc = "loop" -> iterations + 2
          [] pc \in Body -> position + iterations + 2
          [] pc = "finalize" -> 1
          [] OTHER -> 0

\* C6: once the clip is checked the loop runs exactly num_epochs iterations,
\* with no other way out of it, then finalize runs once and the run ends:
\* initialize, num_epochs times iterate, finalize, and nothing after it.
ExactlyNumEpochs ==
    /\ [](pc \in {"finalize", "done", "array_assertion_failed"} => epoch = args.num_epochs)
    /\ [](pc \in Body => epoch <= args.num_epochs)
    /\ [][/\ pc = "loop" => (pc' = "forward" /\ epoch' = epoch + 1) \/ pc' = "finalize"
          /\ pc' = "finalize" => pc = "loop"
          /\ pc' = "forward" => pc = "loop"
          /\ pc' = "loop" => pc \in {"initialize", "report"}
          /\ pc \in Body => epoch' = epoch
          /\ pc = "finalize" => pc' = "done"
          /\ pc \notin Stopped
          /\ pc' # "shape_assertion_failed" => StepsLeft' = StepsLeft - 1]_vars

\* a run of the largest number of epochs has ended
AllEpochsWitness ==
    /\ pc = "done"
    /\ args.num_epochs = MaxEpochs
    /\ epoch = MaxEpochs

\* C7: an iteration changes only values of the clip and of its gradient
\* buffer: the clip keeps the shape (1, 3, 32, H, W), the parameters stay
\* frozen and unchanged, the weights and channels are the same five values
\* in every iteration.
IterationFrame ==
    /\ [](pc \in Body \cup {"loop", "finalize"} =>
            /\ Len(video.shape) = 5
            /\ SubSeq(video.shape, 1, 3) = <<1, 3, 32>>
            /\ Len(video.data) = 3 * 32 * video.shape[4] * video.shape[5])
    /\ [](params.requires_grad = FALSE)
    /\ []((Completed >= 1 \/ pc \in Body \ {"forward", "loss"}) =>
            /\ weights = <<0, 0, 1, 0, 0>>
            /\ channels = <<0, 0, 6, 0, 0>>)
    /\ [][/\ params' = params
          /\ args' = args
          /\ pc = "initialize" /\ pc' = "loop" => video'.shape = <<1>> \o video.shape
          /\ pc \in Body \cup {"loop"} =>
                /\ video'.shape = video.shape
                /\ dream' = dream
                /\ pc \notin {"update", "clamp"} => video' = video
                /\ pc \notin {"backward", "normalize", "zero"} => grad' = grad]_vars

\* two iterations have changed the values of a (1, 3, 32, 1, 2) clip
FrameWitness ==
    /\ pc = "loop"
    /\ epoch = 2
    /\ video.shape = <<1, 3, 32, 1, 2>>
    /\ video # AddBatch(Normalize(Ramp(<<3, 32, 1, 2>>, 0)))
    /\ video # AddBatch(Normalize(Ramp(<<3, 32, 1, 2>>, 500)))

\* C8: the loss is the sum over the five layers of weight times activation
\* norm, minus gamma times the total variation of the clip; with the default
\* weights only layer index 2 (the third) contributes.
LossIsNormsMinusVariation ==
    pc = "backward" =>
        /\ tv = (0 - args.gamma * PairTV(video)) \div Scale
        /\ loss = weights[1] * acts[1] + weights[2] * acts[2] + weights[3] * acts[3]
                    + weights[4] * acts[4] + weights[5] * acts[5] + tv
        /\ loss = acts[3] + tv

\* the other layers are active and the regulariser is not zero
LossWitness ==
    /\ pc = "backward"
    /\ acts[1] > 0 /\ acts[2] > 0 /\ acts[4] > 0 /\ acts[5] > 0
    /\ args.gamma > 0
    /\ tv < 0
    /\ loss = acts[3] + tv

\* C9: the steps of an iteration come in the order forward, loss, backward,
\* normalization of the gradient by its standard deviation plus epsilon,
\* ascent step clip += lr * gradient, per-channel clamp, zeroing of the
\* gradient, report; no forward pass after the first sees an unclamped clip.
StepOrder ==
    /\ [][/\ pc = "forward" => pc' = "loss"
          /\ pc = "loss" => pc' = "backward"
          /\ pc = "backward" => pc' = "normalize"
          /\ pc = "normalize" =>
                /\ pc' = "update"
                /\ LET d == StdDev(grad) + Eps
                   IN  \A k \in 1..Len(grad.data) :
                          grad'.data[k] = (grad.data[k] * Scale) \div d
          /\ pc = "update" =>
                /\ pc' = "clamp"
                /\ \A k \in 1..Len(video.data) :
                      video'.data[k] = video.data[k] + (args.lr * grad.data[k]) \div Scale
          /\ pc = "clamp" =>
                /\ pc' = "zero"
                /\ InRange(video')
                /\ \A k \in 1..Len(video.data) :
                      video'.data[k] # video.data[k] => ~InRange(video)
          /\ pc = "zero" => pc' = "report" /\ AllZero(grad')
          /\ pc = "report" => pc' = "loop" /\ postfix' = [loss |-> loss, tv |-> tv]]_vars
    /\ []((pc = "forward" /\ epoch >= 2) => InRange(video))

\* a second forward pass starts on a clip the ascent step had pushed to
\* the upper limit of channel 1
SecondForwardWitness ==
    /\ pc = "forward"
    /\ epoch = 2
    /\ AllZero(grad)
    /\ \A k \in 1..Len(video.data) :
          Coord(video.shape, k, 2) = 1 => video.data[k] = ((Scale - mean[1]) * Scale) \div std[1]

\* C10: a clip whose leading dimensions are not (3, 32) fails the shape
\* assertion in initialize and the run ends there: no iteration runs, no
\* output is written, nothing is tried again.
BadShapeStops ==
    /\ [][/\ (pc = "initialize" /\ SubSeq(video.shape, 1, 2) # <<3, 32>>) =>
                (pc' = "shape_assertion_failed" /\ video' = video)
          /\ pc # "shape_assertion_failed"]_vars
    /\ [](pc = "shape_assertion_failed" =>
            /\ SubSeq(video.shape, 1, 2) # <<3, 32>>
            /\ epoch = 0
            /\ grad = NoTensor
            /\ dream = NoTensor)

\* the run has stopped on a clip of 16 frames
ShortClipWitness ==
    /\ pc = "shape_assertion_failed"
    /\ video.shape = <<3, 16, 1, 1>>

====
